---- MODULE Spec2Model ----
(***************************************************************************)
(* Double-double arithmetic of KotlinMania/klang, tools/float128_*.c.      *)
(*                                                                         *)
(* The C type double is IEEE-754 binary64.  A double is modelled by its    *)
(* bit pattern, split in four fields:                                      *)
(*     [sign |-> 0..1, bexp |-> 0..2047, mhi |-> 0..2^26-1,                *)
(*      mlo |-> 0..2^26-1]                                                 *)
(* sign is bit 63, bexp the biased exponent (bits 62..52), and the 52-bit  *)
(* fraction is mhi * 2^26 + mlo.  The arithmetic of the C operators        *)
(* +, -, * and of fma() is round-to-nearest, ties-to-even, with signed     *)
(* zeros, subnormals, infinities and NaN, evaluated without contraction    *)
(* (each C operator rounds once).  All NaNs are identified with the        *)
(* default NaN 0xFFF8000000000000.                                         *)
(*                                                                         *)
(* TLC's integers are 32 bits wide, so the 53-bit significands and their   *)
(* exact sums and products are carried as natural numbers of arbitrary     *)
(* size: little-endian sequences of limbs in base 2^13, without a most     *)
(* significant zero limb (zero is the empty sequence).                     *)
(***************************************************************************)
EXTENDS Integers, Sequences, FiniteSets, TLC

\* DBL_MANT_DIG: the width of a double's significand.
DBL_MANT_DIG == 53

\* SPLIT_CONST: the multiplier 2^27 + 1 of split_double.
SPLIT_CONST == 134217729

Max(i, j) == IF i >= j THEN i ELSE j
Min(i, j) == IF i <= j THEN i ELSE j

\* F(x), with x evaluated once: a C expression is evaluated when control
\* reaches it and its value is used from then on.
With(x, F(_)) == CHOOSE r \in {F(v) : v \in {x}} : TRUE

(***************************************************************************)
(* Natural numbers of arbitrary size.                                      *)
(***************************************************************************)
Base == 2^13

Limb(x, i) == IF i >= 1 /\ i <= Len(x) THEN x[i] ELSE 0

\* x without its most significant zero limbs.
Trim(x) ==
  With(x, LAMBDA v :
    IF Len(v) = 0 THEN <<>>
    ELSE IF v[Len(v)] # 0 THEN v
    ELSE With({i \in 1..Len(v) : v[i] # 0}, LAMBDA nz :
           IF nz = {} THEN <<>>
           ELSE SubSeq(v, 1, CHOOSE i \in nz : \A j \in nz : j <= i)))

\* The digits d (integers, possibly >= Base) with the carries propagated
\* from limb i on; c is the carry into limb i.
RECURSIVE Carry(_, _, _, _)
Carry(d, i, c, acc) ==
  IF i > Len(d) /\ c = 0 THEN acc
  ELSE With(Limb(d, i) + c, LAMBDA t :
         Carry(d, i + 1, t \div Base, Append(acc, t % Base)))

BNorm(d) == With(d, LAMBDA v : Trim(Carry(v, 1, 0, <<>>)))

\* A natural number below 2^31 as limbs.
BNat(n) == BNorm(<<n>>)

\* x + y.  Limb i receives a carry when a lower limb sum overflows and every
\* limb sum between the two is Base - 1 or more.
BAdd(x, y) ==
  LET n    == Max(Len(x), Len(y)) + 1
      d(i) == Limb(x, i) + Limb(y, i)
  IN  With({j \in 1..Min(Len(x), Len(y)) : d(j) >= Base}, LAMBDA gen :
      With({k \in 1..n : d(k) < Base - 1}, LAMBDA stop :
        LET c(i) == IF \E j \in gen : j < i /\ ~(\E k \in stop : j < k /\ k < i)
                    THEN 1 ELSE 0
        IN  Trim([i \in 1..n |-> (d(i) + c(i)) % Base])))

\* x - y, for x >= y.  Limb i lends when a lower limb difference is negative
\* and every limb difference between the two is zero or less.
BSub(x, y) ==
  LET d(i) == Limb(x, i) - Limb(y, i)
  IN  With({j \in 1..Min(Len(x), Len(y)) : d(j) < 0}, LAMBDA gen :
      With({k \in 1..Len(x) : d(k) > 0}, LAMBDA stop :
        LET c(i) == IF \E j \in gen : j < i /\ ~(\E k \in stop : j < k /\ k < i)
                    THEN 1 ELSE 0
        IN  Trim([i \in 1..Len(x) |-> (d(i) - c(i) + Base) % Base])))

\* -1, 0, 1 as x < y, x = y, x > y.
BCmp(x, y) ==
  IF Len(x) # Len(y) THEN (IF Len(x) < Len(y) THEN -1 ELSE 1)
  ELSE IF Len(x) = 0 THEN 0
  ELSE IF x[Len(x)] # y[Len(x)] THEN (IF x[Len(x)] < y[Len(x)] THEN -1 ELSE 1)
  ELSE With({i \in 1..Len(x) : x[i] # y[i]}, LAMBDA df :
         IF df = {} THEN 0
         ELSE With(CHOOSE k \in df : \A j \in df : j <= k, LAMBDA i :
                IF x[i] < y[i] THEN -1 ELSE 1))

\* The sum of x[i] * y[k+1-i] over the limbs i..hi: column k of the product.
RECURSIVE ColSum(_, _, _, _, _)
ColSum(x, y, k, i, hi) ==
  IF i > hi THEN 0 ELSE x[i] * y[k + 1 - i] + ColSum(x, y, k, i + 1, hi)

BMul(x, y) ==
  With(x, LAMBDA u : With(y, LAMBDA v :
    IF u = <<>> \/ v = <<>> THEN <<>>
    ELSE BNorm([k \in 1..(Len(u) + Len(v) - 1) |->
                  ColSum(u, v, k, Max(1, k + 1 - Len(v)), Min(Len(u), k))])))

\* x * 2^k.
BShl(x, k) ==
  With(k \div 13, LAMBDA w : With(k % 13, LAMBDA r :
    Trim([i \in 1..(Len(x) + w + 1) |->
            (Limb(x, i - w) % 2^(13 - r)) * 2^r + Limb(x, i - w - 1) \div 2^(13 - r)])))

\* floor(x / 2^k).
BShr(x, k) ==
  With(k \div 13, LAMBDA w : With(k % 13, LAMBDA r :
    IF w >= Len(x) THEN <<>>
    ELSE Trim([i \in 1..(Len(x) - w) |->
                 (x[i + w] \div 2^r) + (Limb(x, i + w + 1) % 2^r) * 2^(13 - r)])))

\* Bit k of x (bit 0 is the least significant).
BBit(x, k) == (Limb(x, k \div 13 + 1) \div 2^(k % 13)) % 2

\* The k low bits of x are all zero.
BLowZero(x, k) ==
  /\ \A i \in 1..(k \div 13) : Limb(x, i) = 0
  /\ Limb(x, k \div 13 + 1) % 2^(k % 13) = 0

\* The number of bits of x (0 for zero).
BitLen(x) ==
  IF x = <<>> THEN 0
  ELSE (Len(x) - 1) * 13
       + (CHOOSE k \in 1..13 : 2^(k - 1) <= x[Len(x)] /\ x[Len(x)] < 2^k)

BOdd(x) == Limb(x, 1) % 2 = 1

(***************************************************************************)
(* Dyadic rationals (-1)^s * m * 2^q: the real numbers the doubles stand   *)
(* for, and their exact sums and products.  Zero has s = 0.                *)
(***************************************************************************)
Dy(s, m, q) ==
  With(m, LAMBDA v : [s |-> IF v = <<>> THEN 0 ELSE s, m |-> v, q |-> q])

DZero == Dy(0, <<>>, 0)

DNeg(X) == Dy(1 - X.s, X.m, X.q)

DAbs(X) == Dy(0, X.m, X.q)

DSum(X, Y) ==
  With(X, LAMBDA A : With(Y, LAMBDA B :
    IF A.m = <<>> THEN B
    ELSE IF B.m = <<>> THEN A
    ELSE With(Min(A.q, B.q), LAMBDA q :
         With(BShl(A.m, A.q - q), LAMBDA ma :
         With(BShl(B.m, B.q - q), LAMBDA mb :
         With(BCmp(ma, mb), LAMBDA c :
         With(IF c >= 0 THEN <<A.s, ma, mb>> ELSE <<B.s, mb, ma>>, LAMBDA o :
           Dy(o[1], IF A.s = B.s THEN BAdd(ma, mb) ELSE BSub(o[2], o[3]), q))))))))

DDiff(X, Y) == DSum(X, DNeg(Y))

DProd(X, Y) ==
  With(X, LAMBDA A : With(Y, LAMBDA B :
    Dy((A.s + B.s) % 2, BMul(A.m, B.m),
       IF A.m = <<>> \/ B.m = <<>> THEN 0 ELSE A.q + B.q)))

\* X = Y, X <= Y, X < Y as real numbers.
DEq(X, Y) == DDiff(X, Y).m = <<>>

DLe(X, Y) == With(DDiff(X, Y), LAMBDA D : D.m = <<>> \/ D.s = 1)

DLt(X, Y) == With(DDiff(X, Y), LAMBDA D : D.m # <<>> /\ D.s = 1)

\* 2^k.
DPow2(k) == Dy(0, <<1>>, k)

(***************************************************************************)
(* binary64.                                                               *)
(***************************************************************************)
Bits(s, e, h, l) == [sign |-> s, bexp |-> e, mhi |-> h, mlo |-> l]

Zero(s) == Bits(s, 0, 0, 0)

Inf(s) == Bits(s, 2047, 0, 0)

NaN == Bits(1, 2047, 2^25, 0)

IsNaN(d) == d.bexp = 2047 /\ (d.mhi # 0 \/ d.mlo # 0)

IsInf(d) == d.bexp = 2047 /\ d.mhi = 0 /\ d.mlo = 0

IsFinite(d) == d.bexp < 2047

IsZero(d) == d.bexp = 0 /\ d.mhi = 0 /\ d.mlo = 0

\* The exponent of the unit in the last place of a finite double.
UlpExp(d) == Max(d.bexp, 1) - 1022 - DBL_MANT_DIG

\* The real number a finite double stands for.
Val(d) ==
  With(d, LAMBDA v :
    Dy(v.sign,
       Trim(<<v.mlo % Base, v.mlo \div Base, v.mhi % Base, v.mhi \div Base,
              IF v.bexp > 0 THEN 1 ELSE 0>>),
       UlpExp(v)))

\* The double of sign s, significand g <= 2^53 and last-place exponent t
\* (g >= 2^52 or t = -1074).
Pack(s, g, t) ==
  With(BitLen(g), LAMBDA n :
  With(IF n > DBL_MANT_DIG THEN BShr(g, 1) ELSE g, LAMBDA g1 :
  With(IF n > DBL_MANT_DIG THEN t + 1 ELSE t, LAMBDA t1 :
    IF Min(n, DBL_MANT_DIG) - 1 + t1 > 1023 THEN Inf(s)
    ELSE Bits(s,
              IF n >= DBL_MANT_DIG THEN t1 + 1022 + DBL_MANT_DIG ELSE 0,
              Limb(g1, 3) + Limb(g1, 4) * Base,
              Limb(g1, 1) + Limb(g1, 2) * Base))))

\* Round to nearest, ties to even, of the real number X.
Round(X) ==
  IF X.m = <<>> THEN Zero(X.s)
  ELSE With(BitLen(X.m) - 1 + X.q, LAMBDA E :
       With(Max(E - (DBL_MANT_DIG - 1), -1022 - (DBL_MANT_DIG - 1)), LAMBDA t :
         IF E > 1023 THEN Inf(X.s)
         ELSE With(t - X.q, LAMBDA k :
              With(IF k <= 0 THEN BShl(X.m, -k) ELSE BShr(X.m, k), LAMBDA f :
              With(k > 0 /\ BBit(X.m, k - 1) = 1
                         /\ (~BLowZero(X.m, k - 1) \/ BOdd(f)), LAMBDA up :
              With(IF up THEN BAdd(f, <<1>>) ELSE f, LAMBDA g :
                Pack(X.s, g, t)))))))

\* An integer constant of the program as a double.
FromInt(n) ==
  With(Dy(IF n < 0 THEN 1 ELSE 0, BNat(IF n < 0 THEN -n ELSE n), 0), LAMBDA X :
    Round(X))

\* Unary minus.
FNeg(a) == With(a, LAMBDA x : IF IsNaN(x) THEN NaN ELSE [x EXCEPT !.sign = 1 - @])

\* The real sum of the finite doubles x and y, rounded.  An operand 55 or
\* more binary places below the other only decides on which side of the
\* other the sum lies: it is replaced by an eighth of the other's unit in
\* the last place, which rounds alike.
RoundSum(x, y) ==
  With(Val(x), LAMBDA A : With(Val(y), LAMBDA B :
  With(A.m # <<>> /\ B.m # <<>>, LAMBDA nz :
  With(IF nz /\ B.q - A.q >= DBL_MANT_DIG + 2
       THEN [s |-> A.s, m |-> <<1>>, q |-> B.q - 3] ELSE A, LAMBDA A1 :
  With(IF nz /\ A.q - B.q >= DBL_MANT_DIG + 2
       THEN [s |-> B.s, m |-> <<1>>, q |-> A.q - 3] ELSE B, LAMBDA B1 :
  With(DSum(A1, B1), LAMBDA S :
    IF S.m = <<>> THEN Zero(IF x.sign = 1 /\ y.sign = 1 THEN 1 ELSE 0)
    ELSE Round(S)))))))

\* a + b.
FAdd(a, b) ==
  With(a, LAMBDA x : With(b, LAMBDA y :
    IF IsNaN(x) \/ IsNaN(y) THEN NaN
    ELSE IF IsInf(x) THEN (IF IsInf(y) /\ x.sign # y.sign THEN NaN ELSE x)
    ELSE IF IsInf(y) THEN y
    ELSE RoundSum(x, y)))

\* a - b.
FSub(a, b) == FAdd(a, FNeg(b))

\* The real product of the finite doubles x and y.
ValProd(x, y) ==
  With(BMul(Val(x).m, Val(y).m), LAMBDA m :
    [s |-> (x.sign + y.sign) % 2, m |-> m, q |-> UlpExp(x) + UlpExp(y)])

\* a * b.
FMul(a, b) ==
  With(a, LAMBDA x : With(b, LAMBDA y :
  With((x.sign + y.sign) % 2, LAMBDA s :
    IF IsNaN(x) \/ IsNaN(y) THEN NaN
    ELSE IF IsInf(x) \/ IsInf(y)
         THEN (IF IsZero(x) \/ IsZero(y) THEN NaN ELSE Inf(s))
    ELSE IF IsZero(x) \/ IsZero(y) THEN Zero(s)
    ELSE With(ValProd(x, y), LAMBDA P : Round(P)))))

\* fma(a, b, c): a * b + c with a single rounding.
FFma(a, b, c) ==
  With(a, LAMBDA x : With(b, LAMBDA y : With(c, LAMBDA z :
  With((x.sign + y.sign) % 2, LAMBDA s :
    IF IsNaN(x) \/ IsNaN(y) \/ IsNaN(z) THEN NaN
    ELSE IF IsInf(x) \/ IsInf(y)
         THEN (IF IsZero(x) \/ IsZero(y) THEN NaN
               ELSE IF IsInf(z) /\ z.sign # s THEN NaN
               ELSE Inf(s))
    ELSE IF IsInf(z) THEN z
    ELSE IF IsZero(x) \/ IsZero(y)
         THEN (IF IsZero(z) THEN Zero(IF s = 1 /\ z.sign = 1 THEN 1 ELSE 0) ELSE z)
    ELSE With(DSum(ValProd(x, y), Val(z)), LAMBDA S :
           IF S.m = <<>> THEN Zero(0) ELSE Round(S))))))

(***************************************************************************)
(* The double-double core.  dd_real is [hi |-> double, lo |-> double].     *)
(* float128_benchmark.c and float128_bitcompare.c hold the same two_sum,   *)
(* quick_two_sum, dd_add and dd_from_double; they differ in two_prod       *)
(* (splitting against fma) and in dd_mul.                                  *)
(***************************************************************************)
DD(h, l) == [hi |-> h, lo |-> l]

\* split_double(a, &hi, &lo), float128_benchmark.c.
split_double(a) ==
  With(FMul(FromInt(SPLIT_CONST), a), LAMBDA temp :
  With(FSub(temp, FSub(temp, a)), LAMBDA hi :
  With(FSub(a, hi), LAMBDA lo :
    DD(hi, lo))))

\* A faulty two_sum: the error term computed as quick_two_sum computes it,
\* b - (s - a), without the term for a.
two_sum_quick(a, b) ==
  With(FAdd(a, b), LAMBDA s :
  With(FSub(b, FSub(s, a)), LAMBDA err :
    DD(s, err)))

\* two_sum(a, b).
two_sum(a, b) ==
  With(FAdd(a, b), LAMBDA s :
  With(FSub(s, a), LAMBDA v :
  With(FAdd(FSub(a, FSub(s, v)), FSub(b, v)), LAMBDA err :
    DD(s, err))))

\* A faulty quick_two_sum: the error term with its sign slipped,
\* (s - a) - b for b - (s - a).
quick_two_sum_slip(a, b) ==
  With(FAdd(a, b), LAMBDA s :
  With(FSub(FSub(s, a), b), LAMBDA err :
    DD(s, err)))

\* quick_two_sum(a, b).
quick_two_sum(a, b) ==
  With(FAdd(a, b), LAMBDA s :
  With(FSub(b, FSub(s, a)), LAMBDA err :
    DD(s, err)))

\* A faulty two_prod: the term a_lo * b_lo left out of the error.
two_prod_drop_lolo(a, b) ==
  With(FMul(a, b), LAMBDA p :
  With(split_double(a), LAMBDA as :
  With(split_double(b), LAMBDA bs :
  With(FAdd(FAdd(FSub(FMul(as.hi, bs.hi), p), FMul(as.hi, bs.lo)),
            FMul(as.lo, bs.hi)), LAMBDA err :
    DD(p, err)))))

\* two_prod(a, b) of float128_benchmark.c: by splitting.
two_prod(a, b) ==
  With(FMul(a, b), LAMBDA p :
  With(split_double(a), LAMBDA as :
  With(split_double(b), LAMBDA bs :
    LET a_hi == as.hi
        a_lo == as.lo
        b_hi == bs.hi
        b_lo == bs.lo
    IN  With(FAdd(FAdd(FAdd(FSub(FMul(a_hi, b_hi), p), FMul(a_hi, b_lo)),
                       FMul(a_lo, b_hi)),
                  FMul(a_lo, b_lo)), LAMBDA err :
          DD(p, err)))))

\* A faulty fma two_prod: fma(a, b, p) for fma(a, b, -p).
two_prod_fma_slip(a, b) ==
  With(FMul(a, b), LAMBDA p :
  With(FFma(a, b, p), LAMBDA e :
    DD(p, e)))

\* two_prod(a, b) of float128_bitcompare.c: by fma.
two_prod_fma(a, b) ==
  With(FMul(a, b), LAMBDA p :
  With(FFma(a, b, FNeg(p)), LAMBDA e :
    DD(p, e)))

\* A faulty dd_add: the rounding error of the high parts subtracted from the
\* low parts instead of added.
dd_add_slip(a, b) ==
  With(two_sum(a.hi, b.hi), LAMBDA s :
  With(FSub(FAdd(a.lo, b.lo), s.lo), LAMBDA lo_sum :
    quick_two_sum(s.hi, lo_sum)))

\* dd_add(a, b).
dd_add(a, b) ==
  With(two_sum(a.hi, b.hi), LAMBDA s :
  With(FAdd(FAdd(a.lo, b.lo), s.lo), LAMBDA lo_sum :
    quick_two_sum(s.hi, lo_sum)))

\* A faulty dd_add_d: the low part of a left out.
dd_add_d_drop_lo(a, b) ==
  With(two_sum(a.hi, b), LAMBDA s :
    quick_two_sum(s.hi, s.lo))

\* dd_add_d(a, b).
dd_add_d(a, b) ==
  With(two_sum(a.hi, b), LAMBDA s :
  With(FAdd(a.lo, s.lo), LAMBDA lo_sum :
    quick_two_sum(s.hi, lo_sum)))

\* dd_mul_d(a, b).
dd_mul_d(a, b) ==
  With(two_prod(a.hi, b), LAMBDA p :
  With(FAdd(FMul(a.lo, b), p.lo), LAMBDA lo_term :
    quick_two_sum(p.hi, lo_term)))

\* dd_mul(a, b) of float128_benchmark.c.
dd_mul(a, b) ==
  With(two_prod(a.hi, b.hi), LAMBDA p :
  With(two_prod(a.hi, b.lo), LAMBDA t1 :
  With(dd_add(p, t1), LAMBDA r1 :
  With(two_prod(a.lo, b.hi), LAMBDA t2 :
  With(dd_add(r1, t2), LAMBDA r2 :
  With(two_prod(a.lo, b.lo), LAMBDA t3 :
    dd_add(r2, t3)))))))

\* A faulty dd_mul of float128_bitcompare.c: the error p.lo of the product of
\* the high parts left out.
dd_mul_fma_drop_err(a, b) ==
  With(two_prod_fma(a.hi, b.hi), LAMBDA p :
  With(FAdd(FMul(a.hi, b.lo), FMul(a.lo, b.hi)), LAMBDA p_lo :
    quick_two_sum(p.hi, p_lo)))

\* dd_mul(a, b) of float128_bitcompare.c.
dd_mul_fma(a, b) ==
  With(two_prod_fma(a.hi, b.hi), LAMBDA p :
  With(FAdd(p.lo, FAdd(FMul(a.hi, b.lo), FMul(a.lo, b.hi))), LAMBDA p_lo :
    quick_two_sum(p.hi, p_lo)))

\* The arguments (x, y) of the call quick_two_sum(x, y) that ends dd_add(a, b):
\* x = s.hi and y = lo_sum.
dd_add_quick_args(a, b) ==
  With(two_sum(a.hi, b.hi), LAMBDA s :
  With(FAdd(FAdd(a.lo, b.lo), s.lo), LAMBDA lo_sum :
    DD(s.hi, lo_sum)))

\* The arguments of the call quick_two_sum(s.hi, lo_sum) of dd_add_d(a, b).
dd_add_d_quick_args(a, b) ==
  With(two_sum(a.hi, b), LAMBDA s :
  With(FAdd(a.lo, s.lo), LAMBDA lo_sum :
    DD(s.hi, lo_sum)))

\* The arguments of the call quick_two_sum(p.hi, lo_term) of dd_mul_d(a, b).
dd_mul_d_quick_args(a, b) ==
  With(two_prod(a.hi, b), LAMBDA p :
  With(FAdd(FMul(a.lo, b), p.lo), LAMBDA lo_term :
    DD(p.hi, lo_term)))

\* The arguments of the call quick_two_sum(p.hi, p.lo) of dd_mul(a, b) of
\* float128_bitcompare.c.
dd_mul_fma_quick_args(a, b) ==
  With(two_prod_fma(a.hi, b.hi), LAMBDA p :
  With(FAdd(p.lo, FAdd(FMul(a.hi, b.lo), FMul(a.lo, b.hi))), LAMBDA p_lo :
    DD(p.hi, p_lo)))

\* A faulty dd_to_double: the high part alone.
dd_to_double_hi(a) == a.hi

\* dd_to_double(a).
dd_to_double(a) == FAdd(a.hi, a.lo)

\* dd_from_double(x).
dd_from_double(d) == DD(d, Zero(0))

(***************************************************************************)
(* Operands.  The doubles the programs use (1.0, 3.0, 1.0/3.0, 0.1, 1e-16, *)
(* 1e-8, ...) and doubles at the edges of the format, by bit pattern.      *)
(***************************************************************************)
One == Bits(0, 1023, 0, 0)                        \* 1.0
MinusOne == Bits(1, 1023, 0, 0)                   \* -1.0
Three == Bits(0, 1024, 33554432, 0)               \* 3.0
Third == Bits(0, 1021, 22369621, 22369621)        \* 1.0 / 3.0
Tenth == Bits(0, 1019, 40265318, 26843546)        \* 0.1
Eps16 == Bits(0, 969, 53783717, 64522684)         \* 1e-16
Small == Bits(0, 996, 22963128, 36736058)         \* 1e-8
E150 == Bits(0, 1521, 14896459, 38835887)         \* 1e150
E200 == Bits(0, 1687, 20563509, 64447066)         \* 1e200
EM200 == Bits(0, 358, 35628165, 21952428)         \* 1e-200
E300x == Bits(0, 2020, 8047449, 33577013)         \* 1.5e300
EM300 == Bits(0, 26, 22775792, 49869657)          \* 1e-300
DblMax == Bits(0, 2046, 67108863, 67108863)       \* DBL_MAX
NegQuarterMax == Bits(1, 2045, 0, 3)              \* -(2^1022 + 3 * 2^970)
MinSub == Bits(0, 0, 0, 1)                        \* 2^-1074
ThirdLo == Bits(0, 967, 22369621, 22369621)       \* 1/3 - (1.0 / 3.0), rounded
NearMinusOne == Bits(1, 1022, 67108863, 67108863) \* -(1 - 2^-53)
NearLo == Bits(0, 968, 65872976, 10576975)        \* 5.5e-17

E300 == Bits(0, 2019, 33099554, 30108)            \* 1e300, in [2^996, 2^997)
SplitEdge == Bits(0, 2019, 67108862, 0)           \* 2^997 * (1 - 2^-26)
SplitOver == Bits(0, 2019, 67108863, 0)           \* 2^997 * (1 - 2^-27)
OverA == Bits(0, 1535, 0, 67104768)               \* 2^512 * (1 + 2^-26 - 2^-40)
OverB == Bits(0, 1534, 67108862, 67100672)        \* 2^512 * (1 - 2^-27 - 2^-40)
NearMaxA == Bits(0, 1535, 15969535, 53440161)     \* 0x5FF3CEB3FF2F6EA1
NearMaxB == Bits(0, 1534, 41309199, 57904990)     \* 0x5FE9D9503F738F5E
NegMinSub == Bits(1, 0, 0, 1)                     \* -2^-1074
MinusThreeQuarters == Bits(1, 1022, 33554432, 0)  \* -0.75

\* How many down-scaled copies of 1.0 / 3.0 the scalar operands hold.
MaxShift == 2

\* How many operators are applied in a row to a double-double value.
MaxOps == 2

\* How many times test_summation's loops are run.
MaxSteps == 30

\* How many starting guesses above 1.0 / 3.0 test_one_third is run from.
MaxGuess == 30

\* The number of iterations of test_one_third's loop.
NewtonIters == 3

\* d * 2^-k, for a normal d that stays normal.
ScaleDown(d, k) == [d EXCEPT !.bexp = @ - k]

\* The operands of the primitives.
Scalars ==
  {Zero(0), Zero(1), One, MinusOne, Three, Third, Tenth, Eps16, E150, E200,
   EM200, E300x, EM300, DblMax, NegQuarterMax, MinSub, Inf(0), Inf(1), NaN,
   E300, SplitEdge, SplitOver, OverA, OverB, NearMaxA, NearMaxB}
  \cup {ScaleDown(Third, 27 * k) : k \in 1..MaxShift}

\* The scalars the operators are called on, as dd_from_double of them.
OpScalars ==
  {Zero(0), One, Eps16, Third, E200, DblMax, NegQuarterMax, Inf(0), Inf(1), NaN}

\* Normalized double-double operands: 1 + 1e-16, a value just above -1, and
\* 1/3 to double-double precision.
DDOperands == {DD(One, Eps16), DD(NearMinusOne, NearLo), DD(Third, ThirdLo)}

DScalars == {Three, MinusOne, E200}

\* The operands of one call of dd_mul: the normalized pairs above, and
\* dd_from_double of scalars (a product that overflows and one that
\* underflows among them).
MulOperands ==
  DDOperands \cup
  {dd_from_double(x) :
     x \in {One, Third, Tenth, E200, Inf(0), NegMinSub, MinusThreeQuarters}}

\* The operands of one call of dd_add_d: pairs with a nonzero lo, pairs with
\* a zero lo of either sign, and pairs that are not finite ...
AddDOperands ==
  DDOperands \cup
  {DD(Zero(1), Zero(1)), DD(One, Zero(1)), DD(MinSub, Zero(1)),
   dd_from_double(Zero(0)), dd_from_double(DblMax), dd_from_double(Inf(0))}

\* ... and its scalar operands.
AddDScalars ==
  {Zero(0), Zero(1), One, MinusOne, Three, Eps16, NegMinSub, DblMax,
   NegQuarterMax, E200, Inf(1), NaN}

\* The starting guesses of test_one_third: 1.0 / 3.0 (the program's) and the
\* doubles up to MaxGuess units in the last place above it.
Guesses == {[Third EXCEPT !.mlo = @ + k] : k \in 0..MaxGuess}

\* The constants test_summation is run with (the program's is 1e-8).
SumConsts == {Small, Tenth, Third, Eps16}

(***************************************************************************)
(* State.                                                                  *)
(*   op             the operation applied last ("init": none yet)          *)
(*   sx, sy         scalar operands                                        *)
(*   da, db         double-double operands                                 *)
(*   res, out       the double-double and the scalar result                *)
(*   n              operations applied, or loop iterations done            *)
(*   small, d_sum, k_sum, k_c, dd_sum   the locals of test_summation       *)
(***************************************************************************)
VARIABLES op, sx, sy, da, db, res, out, n, small, d_sum, k_sum, k_c, dd_sum

DDZero == DD(Zero(0), Zero(0))

vars == <<op, sx, sy, da, db, res, out, n, small, d_sum, k_sum, k_c, dd_sum>>

SumIdle ==
  /\ small = Zero(0) /\ d_sum = Zero(0) /\ k_sum = Zero(0) /\ k_c = Zero(0)
  /\ dd_sum = DDZero

\* One call: the result is kept in res (a pair) and out (a scalar).
Call(name, r, o) ==
  /\ op = "init"
  /\ op' = name /\ res' = r /\ out' = o
  /\ UNCHANGED <<sx, sy, da, db, n, small, d_sum, k_sum, k_c, dd_sum>>

(***************************************************************************)
(* SpecCall: one call of a primitive on the scalars sx and sy.             *)
(***************************************************************************)
InitCall ==
  /\ op = "init"
  /\ sx \in Scalars /\ sy \in Scalars
  /\ da = DDZero /\ db = DDZero /\ res = DDZero /\ out = Zero(0) /\ n = 0
  /\ SumIdle

CallTwoSum == Call("two_sum", two_sum(sx, sy), Zero(0))

CallQuickTwoSum == Call("quick_two_sum", quick_two_sum(sx, sy), Zero(0))

CallTwoProd == Call("two_prod", two_prod(sx, sy), Zero(0))

CallTwoProdFma == Call("two_prod_fma", two_prod_fma(sx, sy), Zero(0))

\* dd_to_double(dd_from_double(x)).
CallRoundTrip ==
  Call("roundtrip", dd_from_double(sx), dd_to_double(dd_from_double(sx)))

\* test_cancellation with a = sx, b = sy (the program: 1.0 and 1e-16):
\* out is d_result, the native (a + b) - a; res is dd_result.
test_cancellation ==
  \E d_result \in {FSub(FAdd(sx, sy), sx)} :
    \E dd_one \in {dd_from_double(sx)} :
      \E dd_eps \in {dd_from_double(sy)} :
        \E dd_sum_ \in {dd_add(dd_one, dd_eps)} :
          \E dd_result \in {dd_add_d(dd_sum_, FNeg(sx))} :
            Call("test_cancellation", dd_result, d_result)

NextCall ==
  \/ CallTwoSum
  \/ CallQuickTwoSum
  \/ CallTwoProd
  \/ CallTwoProdFma
  \/ CallRoundTrip
  \/ test_cancellation

SpecCall == InitCall /\ [][NextCall]_vars

(***************************************************************************)
(* SpecOp: one call of an operator on dd_from_double(sx) and               *)
(* dd_from_double(sy), or on dd_from_double(sx) and the scalar sy.         *)
(***************************************************************************)
InitOp ==
  /\ op = "init"
  /\ sx \in OpScalars /\ sy \in OpScalars
  /\ da = DDZero /\ db = DDZero /\ res = DDZero /\ out = Zero(0) /\ n = 0
  /\ SumIdle

CallDdAdd == Call("dd_add", dd_add(dd_from_double(sx), dd_from_double(sy)), Zero(0))

CallDdAddD == Call("dd_add_d", dd_add_d(dd_from_double(sx), sy), Zero(0))

CallDdMulD == Call("dd_mul_d", dd_mul_d(dd_from_double(sx), sy), Zero(0))

CallDdMul == Call("dd_mul", dd_mul(dd_from_double(sx), dd_from_double(sy)), Zero(0))

CallDdMulFma ==
  Call("dd_mul_fma", dd_mul_fma(dd_from_double(sx), dd_from_double(sy)), Zero(0))

NextOp ==
  \/ CallDdAdd
  \/ CallDdAddD
  \/ CallDdMulD
  \/ CallDdMul
  \/ CallDdMulFma

SpecOp == InitOp /\ [][NextOp]_vars

(***************************************************************************)
(* SpecMul: one call of either dd_mul on the double-double operands da     *)
(* and db.                                                                 *)
(***************************************************************************)
InitMul ==
  /\ op = "init"
  /\ da \in MulOperands /\ db \in MulOperands
  /\ sx = Zero(0) /\ sy = Zero(0) /\ res = DDZero /\ out = Zero(0) /\ n = 0
  /\ SumIdle

CallDdMulPair == Call("dd_mul", dd_mul(da, db), Zero(0))

CallDdMulFmaPair == Call("dd_mul_fma", dd_mul_fma(da, db), Zero(0))

NextMul ==
  \/ CallDdMulPair
  \/ CallDdMulFmaPair

SpecMul == InitMul /\ [][NextMul]_vars

(***************************************************************************)
(* SpecAddD: one call of dd_add_d on the double-double da and the scalar   *)
(* sy.                                                                     *)
(***************************************************************************)
InitAddD ==
  /\ op = "init"
  /\ da \in AddDOperands /\ sy \in AddDScalars
  /\ db = DDZero /\ sx = Zero(0) /\ res = DDZero /\ out = Zero(0) /\ n = 0
  /\ SumIdle

CallDdAddDPair == Call("dd_add_d", dd_add_d(da, sy), Zero(0))

NextAddD == CallDdAddDPair

SpecAddD == InitAddD /\ [][NextAddD]_vars

(***************************************************************************)
(* Spec: the operators applied in a row, each to the result of the one     *)
(* before (da) and a fresh operand (db, or the scalar sy).                 *)
(***************************************************************************)
Init ==
  /\ op = "init"
  /\ res \in DDOperands
  /\ da = DDZero /\ db = DDZero /\ sy = Zero(0) /\ sx = Zero(0) /\ out = Zero(0)
  /\ n = 0
  /\ SumIdle

Apply(name, operand, scalar, r) ==
  /\ n < MaxOps
  /\ op' = name /\ da' = res /\ db' = operand /\ sy' = scalar /\ res' = r
  /\ n' = n + 1
  /\ UNCHANGED <<sx, out, small, d_sum, k_sum, k_c, dd_sum>>

DdAdd == \E v \in DDOperands : Apply("dd_add", v, Zero(0), dd_add(res, v))

DdAddD == \E v \in DScalars : Apply("dd_add_d", DDZero, v, dd_add_d(res, v))

DdMulD == \E v \in DScalars : Apply("dd_mul_d", DDZero, v, dd_mul_d(res, v))

DdMul == \E v \in DDOperands : Apply("dd_mul", v, Zero(0), dd_mul(res, v))

DdMulFma == \E v \in DDOperands : Apply("dd_mul_fma", v, Zero(0), dd_mul_fma(res, v))

Next == DdAdd \/ DdAddD \/ DdMulD \/ DdMul \/ DdMulFma

Spec == Init /\ [][Next]_vars

(***************************************************************************)
(* SpecSum: test_summation.  Its three loops (native, Kahan and            *)
(* double-double accumulation of the same constant) are independent of     *)
(* each other and are stepped together, so that the three sums are         *)
(* compared after the same number of iterations.                           *)
(***************************************************************************)
InitSum ==
  /\ op = "init" /\ sx = Zero(0) /\ sy = Zero(0) /\ da = DDZero /\ db = DDZero
  /\ res = DDZero /\ out = Zero(0)
  /\ n = 0
  /\ small \in SumConsts
  /\ d_sum = Zero(0)
  /\ k_sum = Zero(0) /\ k_c = Zero(0)
  /\ dd_sum = dd_from_double(Zero(0))

test_summation ==
  \E y_ \in {FSub(small, k_c)} :
    \E t \in {FAdd(k_sum, y_)} :
      /\ n < MaxSteps
      /\ n' = n + 1
      /\ d_sum' = FAdd(d_sum, small)
      /\ k_c' = FSub(FSub(t, k_sum), y_)
      /\ k_sum' = t
      /\ dd_sum' = dd_add(dd_sum, dd_from_double(small))
      /\ UNCHANGED <<op, sx, sy, da, db, res, out, small>>

NextSum == test_summation

SpecSum == InitSum /\ [][NextSum]_vars

(***************************************************************************)
(* SpecThird: test_one_third.  sx is the starting guess, res is dd_third   *)
(* and n is the loop's i.                                                  *)
(***************************************************************************)
InitThird ==
  /\ op = "init"
  /\ sx \in Guesses
  /\ res = dd_from_double(sx)
  /\ sy = Zero(0) /\ da = DDZero /\ db = DDZero /\ out = Zero(0)
  /\ n = 0
  /\ SumIdle

\* One iteration of the loop.
test_one_third ==
  \E one \in {dd_from_double(One)} :
    \E temp \in {dd_mul_d(res, Three)} :
      \E error \in {dd_add_d(one, FNeg(dd_to_double(temp)))} :
        \E correction \in {dd_mul(res, error)} :
          /\ n < NewtonIters
          /\ n' = n + 1
          /\ res' = dd_add(res, correction)
          /\ op' = "test_one_third"
          /\ UNCHANGED <<sx, sy, da, db, out, small, d_sum, k_sum, k_c, dd_sum>>

NextThird == test_one_third

SpecThird == InitThird /\ [][NextThird]_vars

(***************************************************************************)
(* Notions the properties are stated with.                                 *)
(***************************************************************************)
\* a + b and a * b as real numbers, for finite doubles.
RealSum(a, b) == DSum(Val(a), Val(b))

RealProd(a, b) == DProd(Val(a), Val(b))

\* The pair r is finite and r.hi + r.lo is the real number X.
ExactPair(r, X) ==
  /\ IsFinite(r.hi) /\ IsFinite(r.lo)
  /\ DEq(RealSum(r.hi, r.lo), X)

\* The double d is the real number X rounded to nearest (of either sign
\* when X is zero).
RoundsTo(X, d) == IF X.m = <<>> THEN IsZero(d) ELSE d = Round(X)

\* The real number X rounds to a finite double.
NoOverflow(X) == IsFinite(Round(X))

\* |a| >= |b| for finite doubles.
AbsGe(a, b) == DLe(DAbs(Val(b)), DAbs(Val(a)))

\* floor(log2 |X|) of a real number X # 0.
Log2(X) == BitLen(X.m) - 1 + X.q

\* split_double(a) stays finite: its product SPLIT_CONST * a does not
\* overflow.
Splittable(a) == IsFinite(a) /\ IsFinite(FMul(FromInt(SPLIT_CONST), a))

\* None of the products SPLIT_CONST * a, SPLIT_CONST * b and a_hi * b_hi that
\* the two_prod by splitting computes overflows.
SplitInRange(a, b) ==
  /\ Splittable(a) /\ Splittable(b)
  /\ IsFinite(FMul(split_double(a).hi, split_double(b).hi))

\* The product of a and b does not overflow, and it is zero or not so small
\* that its rounding error can lie below the smallest subnormal:
\* a * b = 0 or |a * b| >= 2^-968.
ProdInRange(a, b) ==
  /\ NoOverflow(RealProd(a, b))
  /\ RealProd(a, b).m = <<>> \/ Log2(RealProd(a, b)) >= -968

\* |lo| <= 0.5 * ulp(hi).
Normalized(r) ==
  /\ IsFinite(r.hi) /\ IsFinite(r.lo)
  /\ DLe(DAbs(Val(r.lo)), DPow2(UlpExp(r.hi) - 1))

\* |x - n * c| for the double x.
SumError(x, k, c) == DAbs(DDiff(Val(x), DProd(Dy(0, BNat(k), 0), Val(c))))

(***************************************************************************)
(* Properties.                                                             *)
(***************************************************************************)
\* C1: for all finite a, b whose sum does not overflow, two_sum(a, b) is
\* (s, e) with s the sum rounded to nearest and s + e = a + b exactly.
\* (Stated as the specification words it; the code does not meet it.)
C1_two_sum_exact ==
  (op = "two_sum" /\ IsFinite(sx) /\ IsFinite(sy) /\ NoOverflow(RealSum(sx, sy)))
    => /\ RoundsTo(RealSum(sx, sy), res.hi)
       /\ ExactPair(res, RealSum(sx, sy))

\* C2, as stated: for all finite a, b, both two_prod return (p, e) with p the
\* product rounded to nearest and p + e = a * b exactly.
C2_two_prod_exact_all_finite ==
  (op \in {"two_prod", "two_prod_fma"} /\ IsFinite(sx) /\ IsFinite(sy))
    => /\ RoundsTo(RealProd(sx, sy), res.hi)
       /\ ExactPair(res, RealProd(sx, sy))

\* C2, corrected: for finite a, b whose product does not overflow and is zero
\* or at least 2^-968 in magnitude, the two_prod by fma returns (p, e) with p
\* the product rounded to nearest and p + e = a * b exactly, and so does the
\* two_prod by splitting when none of its products SPLIT_CONST * a,
\* SPLIT_CONST * b and a_hi * b_hi overflows; when one of these overflows,
\* the two_prod by splitting returns a pair that is not finite.
C2_two_prod_exact_in_range ==
  (op \in {"two_prod", "two_prod_fma"} /\ IsFinite(sx) /\ IsFinite(sy))
    => /\ (ProdInRange(sx, sy) /\ (op = "two_prod" => SplitInRange(sx, sy)))
            => /\ RoundsTo(RealProd(sx, sy), res.hi)
               /\ ExactPair(res, RealProd(sx, sy))
       /\ (op = "two_prod" /\ ~SplitInRange(sx, sy))
            => ~(IsFinite(res.hi) /\ IsFinite(res.lo))

\* C2: two_prod by splitting has returned 0.1 * 0.1 with a nonzero error.
C2_witness ==
  /\ op = "two_prod" /\ sx = Tenth /\ sy = Tenth
  /\ IsFinite(res.lo) /\ ~IsZero(res.lo)
  /\ ExactPair(res, RealProd(Tenth, Tenth))

\* C3, as stated: for every pair of finite doubles the two two_prod return
\* the same (p, e).
C3_same_pair_all_finite ==
  (op = "two_prod" /\ IsFinite(sx) /\ IsFinite(sy)) => res = two_prod_fma(sx, sy)

\* C3, corrected: for finite a, b the two two_prod return the same p; they
\* return the same e, so the same pair, when a * b does not overflow and is
\* zero or at least 2^-968 in magnitude and none of the products
\* SPLIT_CONST * a, SPLIT_CONST * b and a_hi * b_hi of the splitting overflows;
\* and when p is infinite, the e of the two_prod by fma is the infinity of
\* the opposite sign and the e of the two_prod by splitting is not finite
\* (that same infinity, or NaN).
C3_same_pair_in_range ==
  (op = "two_prod" /\ IsFinite(sx) /\ IsFinite(sy))
    => /\ res.hi = two_prod_fma(sx, sy).hi
       /\ (ProdInRange(sx, sy) /\ SplitInRange(sx, sy))
            => res = two_prod_fma(sx, sy)
       /\ IsInf(res.hi)
            => /\ two_prod_fma(sx, sy).lo = Inf(1 - res.hi.sign)
               /\ res.lo = Inf(1 - res.hi.sign) \/ IsNaN(res.lo)

\* C3: two_prod by splitting has returned 1e150 * 1e150, which is finite,
\* and the fma two_prod returns the same pair.
C3_witness ==
  /\ op = "two_prod" /\ sx = E150 /\ sy = E150
  /\ IsFinite(res.hi) /\ IsFinite(res.lo) /\ ~IsZero(res.lo)
  /\ res = two_prod_fma(E150, E150)

\* C4: for finite a, b with |a| >= |b| whose sum does not overflow,
\* quick_two_sum(a, b) is (s, e) with s the sum rounded to nearest and
\* s + e = a + b exactly; with |a| < |b| it still returns a pair, which can
\* be non-exact: quick_two_sum(1e-16, 1.0) is a finite pair whose sum is
\* not 1e-16 + 1.0.
C4_quick_two_sum ==
  op = "quick_two_sum"
    => /\ (/\ IsFinite(sx) /\ IsFinite(sy) /\ AbsGe(sx, sy)
           /\ NoOverflow(RealSum(sx, sy)))
            => /\ RoundsTo(RealSum(sx, sy), res.hi)
               /\ ExactPair(res, RealSum(sx, sy))
       /\ (sx = Eps16 /\ sy = One)
            => /\ IsFinite(res.hi) /\ IsFinite(res.lo)
               /\ ~ExactPair(res, RealSum(sx, sy))

\* C4: quick_two_sum(1.0, 1e-16) has returned (1.0, 1e-16).
C4_witness ==
  /\ op = "quick_two_sum" /\ sx = One /\ sy = Eps16
  /\ res = DD(One, Eps16)

\* C5: for finite operands (as dd_from_double gives them, normalized) whose
\* sum or product does not overflow, the pair returned by dd_add, dd_add_d,
\* dd_mul_d and the two dd_mul is normalized: |lo| <= 0.5 * ulp(hi).
\* (Stated as the specification words it; the code does not meet it.)
C5_result_normalized ==
  (IsFinite(sx) /\ IsFinite(sy))
    => /\ (op \in {"dd_add", "dd_add_d"} /\ NoOverflow(RealSum(sx, sy)))
            => Normalized(res)
       /\ (/\ op \in {"dd_mul_d", "dd_mul", "dd_mul_fma"}
           /\ NoOverflow(RealProd(sx, sy)))
            => Normalized(res)

\* C6: dd_add(A, B) and dd_add(B, A) are the same pair, bit for bit.
\* (Stated as the specification words it; the code does not meet it.)
C6_dd_add_commutes ==
  op = "dd_add" => res = dd_add(dd_from_double(sy), dd_from_double(sx))

\* C7, as stated: for every finite x, signed zeros included,
\* dd_to_double(dd_from_double(x)) is x bit for bit.
C7_roundtrip_bits ==
  (op = "roundtrip" /\ IsFinite(sx)) => out = sx

\* C7, corrected: dd_from_double(x) is (x, 0.0), and for every finite x
\* dd_to_double(dd_from_double(x)) is x bit for bit, except that -0.0 comes
\* back as +0.0.
C7_roundtrip_value ==
  (op = "roundtrip" /\ IsFinite(sx))
    => /\ res = DD(sx, Zero(0))
       /\ out = IF sx = Zero(1) THEN Zero(0) ELSE sx

\* C7: -0.0 has made the round trip and has come back as +0.0.
C7_witness == op = "roundtrip" /\ sx = Zero(1) /\ out = Zero(0)

\* C8: for finite a and b # 0 with a + b rounding to a, the double-double
\* (a + b) - a converts to b, and the native (a + b) - a is zero.
C8_cancellation ==
  (/\ op = "test_cancellation"
   /\ IsFinite(sx) /\ IsFinite(sy) /\ ~IsZero(sy) /\ FAdd(sx, sy) = sx)
    => /\ dd_to_double(res) = sy
       /\ IsZero(out)

\* C8: test_cancellation has run on 1.0 and 1e-16.
C8_witness ==
  /\ op = "test_cancellation" /\ sx = One /\ sy = Eps16
  /\ FAdd(sx, sy) = sx
  /\ dd_to_double(res) = Eps16 /\ out = Zero(0)

\* C9: after every number n of steps, the error of the double-double sum,
\* |dd_to_double(dd_sum) - n * c|, is at most the error of the native sum,
\* |d_sum - n * c|.
C9_precision ==
  DLe(SumError(dd_to_double(dd_sum), n, small), SumError(d_sum, n, small))

\* C9: 1e-8 has been added seven times, and the double-double sum is
\* strictly closer to 7 * 1e-8 than the native sum.
C9_witness ==
  /\ n = 7 /\ small = Small
  /\ DLt(SumError(dd_to_double(dd_sum), n, small), SumError(d_sum, n, small))

\* C10: when an operand is NaN or an infinity, the hi returned by dd_add,
\* dd_add_d, dd_mul_d and the two dd_mul is the native sum or product of the
\* operands' hi.
\* (Stated as the specification words it; the code does not meet it.)
C10_hi_follows_native ==
  (~IsFinite(sx) \/ ~IsFinite(sy))
    => /\ op \in {"dd_add", "dd_add_d"} => res.hi = FAdd(sx, sy)
       /\ op \in {"dd_mul_d", "dd_mul", "dd_mul_fma"} => res.hi = FMul(sx, sy)

\* fabs(x) >= fabs(y) as C evaluates it: false when either is NaN.
FabsGe(x, y) ==
  IF IsFinite(x) /\ IsFinite(y) THEN AbsGe(x, y)
  ELSE ~IsNaN(x) /\ ~IsNaN(y) /\ IsInf(x)

\* C11: in the call quick_two_sum(x, y) that ends dd_add, dd_add_d, dd_mul_d
\* and the dd_mul of float128_bitcompare.c, on normalized finite operands,
\* |x| >= |y|.
\* (Stated as the specification words it; the code does not meet it.)
C11_quick_args_ordered ==
  (Normalized(da) /\ (op \in {"dd_add", "dd_mul_fma"} => Normalized(db))
   /\ IsFinite(sy))
    => /\ op = "dd_add"
            => FabsGe(dd_add_quick_args(da, db).hi, dd_add_quick_args(da, db).lo)
       /\ op = "dd_add_d"
            => FabsGe(dd_add_d_quick_args(da, sy).hi, dd_add_d_quick_args(da, sy).lo)
       /\ op = "dd_mul_d"
            => FabsGe(dd_mul_d_quick_args(da, sy).hi, dd_mul_d_quick_args(da, sy).lo)
       /\ op = "dd_mul_fma"
            => FabsGe(dd_mul_fma_quick_args(da, db).hi,
                      dd_mul_fma_quick_args(da, db).lo)

\* C12, as stated: whenever the s returned by two_sum or quick_two_sum is not
\* finite, the e returned is NaN.
C12_error_nan ==
  (op \in {"two_sum", "quick_two_sum"} /\ ~IsFinite(res.hi)) => IsNaN(res.lo)

\* C12, corrected: whenever the s returned by two_sum or quick_two_sum is not
\* finite, the e returned is not finite either: it is NaN, except that
\* quick_two_sum on finite a and b whose sum overflows returns the infinity
\* of the sign opposite to s.
C12_error_not_finite ==
  (op \in {"two_sum", "quick_two_sum"} /\ ~IsFinite(res.hi))
    => IF op = "quick_two_sum" /\ IsFinite(sx) /\ IsFinite(sy)
       THEN IsInf(res.hi) /\ res.lo = Inf(1 - res.hi.sign)
       ELSE IsNaN(res.lo)

\* C12: two_sum(DBL_MAX, DBL_MAX) has overflowed and has returned (+Inf, NaN).
C12_witness ==
  /\ op = "two_sum" /\ sx = DblMax /\ sy = DblMax
  /\ res = DD(Inf(0), NaN)

\* The accumulation the specification describes for multiply(A, B), without
\* the lo * lo term: dd_add(dd_add(two_prod(A.hi, B.hi), two_prod(A.hi, B.lo)),
\* two_prod(A.lo, B.hi)), on the two_prod by splitting ...
ChainSplit(a, b) ==
  With(dd_add(two_prod(a.hi, b.hi), two_prod(a.hi, b.lo)), LAMBDA r1 :
    dd_add(r1, two_prod(a.lo, b.hi)))

\* ... and on the two_prod by fma.
ChainFma(a, b) ==
  With(dd_add(two_prod_fma(a.hi, b.hi), two_prod_fma(a.hi, b.lo)), LAMBDA r1 :
    dd_add(r1, two_prod_fma(a.lo, b.hi)))

\* The pairs r and c are the same doubles; a zero of either sign is the same
\* zero.
SameDouble(x, y) == x = y \/ (IsZero(x) /\ IsZero(y))

SameValue(r, c) == SameDouble(r.hi, c.hi) /\ SameDouble(r.lo, c.lo)

C14_add_d_is_add ==
  op = "dd_add_d" => res = dd_add(da, dd_from_double(sy))

\* C14: dd_add_d has added -1.0 to (1.0, -0.0), whose lo is a negative zero,
\* and has returned what dd_add returns, a pair of positive zeros.
C14_witness ==
  /\ op = "dd_add_d" /\ da = DD(One, Zero(1)) /\ sy = MinusOne
  /\ res = dd_add(da, dd_from_double(sy))
  /\ res = DDZero

\* 3 * |X - 1/3| = |3 * X - 1| for a real number X.
ThirdError(X) ==
  DAbs(DDiff(DProd(Dy(0, BNat(3), 0), X), Dy(0, BNat(1), 0)))

\* C15: after the three iterations of test_one_third from
\* dd_from_double(1.0 / 3.0), the double-double value hi + lo is strictly
\* closer to 1/3 than the double 1.0 / 3.0, and the result is not
\* (1.0 / 3.0, 0.0).
\* (Stated as the specification words it; the code does not meet it.)
C15_closer_than_double ==
  (n = NewtonIters /\ sx = Third)
    => /\ res # DD(Third, Zero(0))
       /\ DLt(ThirdError(RealSum(res.hi, res.lo)), ThirdError(Val(Third)))

\* The real number X is a double.
Representable(X) == X.m = <<>> \/ DEq(Val(Round(X)), X)

\* C16: for finite a, b whose sum does not overflow,
\* dd_add(dd_from_double(a), dd_from_double(b)) returns the pair that
\* two_sum(a, b) returns, hi + lo is a + b exactly, and lo is zero exactly
\* when a + b is a double.
\* (Stated as the specification words it; the code does not meet it.)
C16_scalar_add_exact ==
  (op = "dd_add" /\ IsFinite(sx) /\ IsFinite(sy) /\ NoOverflow(RealSum(sx, sy)))
    => /\ SameValue(res, two_sum(sx, sy))
       /\ ExactPair(res, RealSum(sx, sy))
       /\ IsZero(res.lo) <=> Representable(RealSum(sx, sy))

====
